---- MODULE Spec2Model ----
(***************************************************************************)
(* Model of scripts/plot_results.py: the loader of the calibration tables, *)
(* the three chart steps, the report writer and main, as one sequential    *)
(* state machine.  A DataFrame is a record of its column names and its     *)
(* rows (each row a function from column name to value); the ResultSet is  *)
(* the insertion-ordered dict of Python, a sequence of key/table pairs.    *)
(* Floating point values are exact rationals plus inf and nan.  The calls   *)
(* into matplotlib draw what they are given and raise nothing; the         *)
(* exceptions modelled are those of pandas indexing on the tables.  The    *)
(* input files are well-formed CSV with the columns N, R_min and           *)
(* success_rate, possibly with no data row.                                *)
(***************************************************************************)
EXTENDS Integers, Sequences, FiniteSets, TLC

VARIABLES
    hasArg,          \* len(sys.argv) >= 2
    dirExists,       \* os.path.exists(results_dir)
    files,           \* the directory: stem of each r_vs_n_B<stem>.csv |-> its table
    pc,              \* position of main
    data,            \* the dict returned by load_calibration_data
    loaded,          \* history: the ResultSet right after loading
    steps,           \* history: the steps main has entered, in order
    stdout,          \* the lines printed
    comparisonPng,   \* <<>> or <<content of r_vs_n_comparison.png>>
    costPng,         \* <<>> or <<content of cost_effectiveness.png>>
    redundancyPng,   \* <<>> or <<content of redundancy_analysis.png>>
    reportTxt,       \* <<>> or <<lines of analysis_report.txt>>
    raised,          \* <<>> or <<the uncaught exception>>
    exitCode         \* <<>> while running, <<code>> once the process ended

vars == <<hasArg, dirExists, files, pc, data, loaded, steps, stdout,
          comparisonPng, costPng, redundancyPng, reportTxt, raised, exitCode>>

----------------------------------------------------------------------------
(* Bounds of the model *)

MaxFiles == 2

\* the stems <stem> of the files r_vs_n_B<stem>.csv a directory may hold
Stems == { <<"0", ".", "0", "0", "0">>,
           <<"0", ".", "0", "5", "0">>,
           <<".", "0", "5">>,
           <<".", "x">> }

NValues == {10, 30}
RValues == {0, 5, 6, 21}
SuccessValues == {90}       \* success_rate, in percent

----------------------------------------------------------------------------
(* float64 arithmetic on the values that occur: rationals n/d in lowest    *)
(* terms with d > 0, plus inf (n = 1), -inf (n = -1) and nan               *)

RECURSIVE GCD(_, _)
GCD(a, b) == IF b = 0 THEN a ELSE GCD(b, a % b)

Abs(x) == IF x < 0 THEN -x ELSE x

NaN == [k |-> "nan", n |-> 0, d |-> 0]
Inf(sign) == [k |-> "inf", n |-> sign, d |-> 0]

Rat(a, b) ==
    LET g == GCD(Abs(a), Abs(b))
        s == IF b < 0 THEN -1 ELSE 1
    IN  [k |-> "num", n |-> s * (a \div g), d |-> s * (b \div g)]

Num(i) == [k |-> "num", n |-> i, d |-> 1]

\* a / b on two integers (true division; numpy and pandas give inf or nan
\* for a zero divisor, with a warning at most)
FDiv(a, b) ==
    IF b # 0 THEN Rat(a, b)
    ELSE IF a = 0 THEN NaN
    ELSE Inf(IF a > 0 THEN 1 ELSE -1)

FMulInt(x, i) ==
    IF x.k = "num" THEN Rat(x.n * i, x.d)
    ELSE IF x.k = "nan" \/ i = 0 THEN NaN
    ELSE Inf(IF i > 0 THEN x.n ELSE -x.n)

FDivInt(x, i) ==
    IF x.k = "num" THEN (IF i = 0 THEN FDiv(x.n, 0) ELSE Rat(x.n, x.d * i))
    ELSE IF x.k = "nan" THEN NaN
    ELSE Inf(IF i >= 0 THEN x.n ELSE -x.n)

FAdd(x, y) ==
    IF x.k = "nan" \/ y.k = "nan" THEN NaN
    ELSE IF x.k = "inf" /\ y.k = "inf" THEN (IF x.n = y.n THEN x ELSE NaN)
    ELSE IF x.k = "inf" THEN x
    ELSE IF y.k = "inf" THEN y
    ELSE Rat(x.n * y.d + y.n * x.d, x.d * y.d)

FSub(x, y) == FAdd(x, FMulInt(y, -1))

\* x < y; false as soon as one side is nan
FLt(x, y) ==
    IF x.k = "nan" \/ y.k = "nan" THEN FALSE
    ELSE IF x.k = "inf" THEN x.n < 0 /\ ~(y.k = "inf" /\ y.n < 0)
    ELSE IF y.k = "inf" THEN y.n > 0
    ELSE x.n * y.d < y.n * x.d

FLe(x, y) == x.k # "nan" /\ y.k # "nan" /\ ~FLt(y, x)

RECURSIVE Pow10(_)
Pow10(e) == IF e = 0 THEN 1 ELSE 10 * Pow10(e - 1)

\* f"{x:.<dec>f}": the value rounded (half to even) to dec decimals, as the
\* integer count of units of 10^-dec; inf and nan print as themselves
Fmt(x, dec) ==
    IF x.k # "num" THEN [k |-> x.k, v |-> x.n]
    ELSE LET a == Abs(x.n) * Pow10(dec)
             q == a \div x.d
             r == a % x.d
             up == 2 * r > x.d \/ (2 * r = x.d /\ q % 2 = 1)
             m == IF up THEN q + 1 ELSE q
         IN  [k |-> "num", v |-> IF x.n < 0 THEN -m ELSE m]

----------------------------------------------------------------------------
(* Strings: file names are sequences of characters *)

DigitVal == ("0" :> 0) @@ ("1" :> 1) @@ ("2" :> 2) @@ ("3" :> 3) @@ ("4" :> 4)
            @@ ("5" :> 5) @@ ("6" :> 6) @@ ("7" :> 7) @@ ("8" :> 8) @@ ("9" :> 9)

Digits == DOMAIN DigitVal

\* ord(c) of the characters that occur in a path below the directory
CharCode == ("." :> 46) @@ ("c" :> 99) @@ ("s" :> 115) @@ ("v" :> 118) @@ ("x" :> 120)
            @@ [c \in Digits |-> 48 + DigitVal[c]]

\* str.__lt__: lexicographic by code point, a proper prefix is smaller
RECURSIVE StrLt(_, _)
StrLt(a, b) ==
    IF b = <<>> THEN FALSE
    ELSE IF a = <<>> THEN TRUE
    ELSE IF Head(a) = Head(b) THEN StrLt(Tail(a), Tail(b))
    ELSE CharCode[Head(a)] < CharCode[Head(b)]

\* the basename without "r_vs_n_B" is <stem>.csv; directory and prefix are
\* common to all the paths glob returns
PathTail(stem) == stem \o <<".", "c", "s", "v">>

\* path a sorts before path b, tabulated over the stems
PathLt == [a \in Stems, b \in Stems |-> StrLt(PathTail(a), PathTail(b))]

RECURSIVE InsertPath(_, _)
InsertPath(p, sorted) ==
    IF sorted = <<>> THEN <<p>>
    ELSE IF PathLt[p, Head(sorted)] THEN <<p>> \o sorted
    ELSE <<Head(sorted)>> \o InsertPath(p, Tail(sorted))

\* sorted(csv_files)
RECURSIVE SortPaths(_)
SortPaths(paths) ==
    IF paths = <<>> THEN <<>>
    ELSE InsertPath(Head(paths), SortPaths(Tail(paths)))

RECURSIVE DigitsValue(_)
DigitsValue(s) ==
    IF s = <<>> THEN 0
    ELSE 10 * DigitsValue(SubSeq(s, 1, Len(s) - 1)) + DigitVal[s[Len(s)]]

\* float(b_str) on decimal literals: digits with at most one point and at
\* least one digit; <<>> is ValueError, <<x>> the value
ParseFloat(s) ==
    LET dots == {i \in 1..Len(s) : s[i] = "."}
        digs == {i \in 1..Len(s) : s[i] \in Digits}
    IN  IF Cardinality(dots) > 1 \/ digs = {} \/ dots \cup digs # 1..Len(s)
        THEN <<>>
        ELSE LET dot == IF dots = {} THEN Len(s) + 1 ELSE CHOOSE i \in dots : TRUE
                 ip == SubSeq(s, 1, dot - 1)
                 fp == SubSeq(s, dot + 1, Len(s))
             IN  <<FDiv(DigitsValue(ip \o fp), Pow10(Len(fp)))>>

\* float(filename.replace("r_vs_n_B", "").replace(".csv", "")), tabulated
\* over the stems
DecodeB == [stem \in Stems |-> ParseFloat(stem)]

----------------------------------------------------------------------------
(* Tables *)

BaseColumns == <<"N", "R_min", "success_rate">>

Row(n, r, sr) == [N |-> n, R_min |-> r, success_rate |-> FDiv(sr, 100)]

RECURSIVE Ascending(_)
Ascending(S) ==
    IF S = {} THEN <<>>
    ELSE LET m == CHOOSE x \in S : \A y \in S : x <= y
         IN  <<m>> \o Ascending(S \ {m})

\* the tables the simulation writes: N unique and ascending within a table
Tables ==
    { [columns |-> BaseColumns,
       rows |-> [i \in 1..Cardinality(S) |->
                    Row(Ascending(S)[i], r[Ascending(S)[i]], sr[Ascending(S)[i]])]]
      : S \in SUBSET NValues, r \in [NValues -> RValues],
        sr \in [NValues -> SuccessValues] }

\* the directories: at most MaxFiles files matching r_vs_n_B*.csv
Directories ==
    UNION { [S -> Tables] : S \in {T \in SUBSET Stems : Cardinality(T) <= MaxFiles} }

\* the orders in which glob may return the files of a directory
GlobOrders(S) ==
    { o \in [1..Cardinality(S) -> S] : \A i, j \in 1..Cardinality(S) : o[i] = o[j] => i = j }

RECURSIVE Masked(_, _)
Masked(rows, mask) ==
    IF rows = <<>> THEN <<>>
    ELSE Masked(SubSeq(rows, 1, Len(rows) - 1), mask)
         \o (IF mask[Len(rows)] THEN <<rows[Len(rows)]>> ELSE <<>>)

\* df[mask]: the rows whose entry of the boolean mask is true, in order
Filter(df, mask) == [df EXCEPT !.rows = Masked(df.rows, mask)]

\* df['N'] == n
NEquals(df, n) == [i \in 1..Len(df.rows) |-> df.rows[i].N = n]

Column(df, c) == [i \in 1..Len(df.rows) |-> df.rows[i][c]]

\* df[c] = values: the column is added in place, or replaced
SetColumn(df, c, values) ==
    [columns |-> IF \E i \in 1..Len(df.columns) : df.columns[i] = c
                 THEN df.columns ELSE Append(df.columns, c),
     rows |-> [i \in 1..Len(df.rows) |->
                 [x \in DOMAIN df.rows[i] \cup {c} |->
                     IF x = c THEN values[i] ELSE df.rows[i][x]]]]

\* Series.min() and Series.max() of an integer column: nan when it is empty
SeriesMin(xs) ==
    IF xs = <<>> THEN NaN
    ELSE Num(CHOOSE m \in {xs[i] : i \in 1..Len(xs)} : \A i \in 1..Len(xs) : m <= xs[i])

SeriesMax(xs) ==
    IF xs = <<>> THEN NaN
    ELSE Num(CHOOSE m \in {xs[i] : i \in 1..Len(xs)} : \A i \in 1..Len(xs) : m >= xs[i])

RECURSIVE FSum(_)
FSum(xs) == IF xs = <<>> THEN Num(0) ELSE FAdd(Head(xs), FSum(Tail(xs)))

\* Series.mean(): nan entries are skipped, nan when nothing is left
SeriesMean(xs) ==
    LET kept == SelectSeq(xs, LAMBDA x : x.k # "nan")
    IN  IF kept = <<>> THEN NaN ELSE FDivInt(FSum(kept), Len(kept))

\* Series.idxmax(): the position of the first greatest value, nan skipped;
\* 0 when there is none (pandas raises, or returns nan and .loc raises)
IdxMax(xs) ==
    LET cand == {i \in 1..Len(xs) : xs[i].k # "nan"}
        best == {i \in cand : \A j \in cand : FLe(xs[j], xs[i])}
    IN  IF best = {} THEN 0 ELSE CHOOSE i \in best : \A j \in best : i <= j

----------------------------------------------------------------------------
(* The ResultSet: a Python dict, insertion-ordered *)

Zero == Num(0)              \* the key 0.0
FiveHundredths == FDiv(5, 100)   \* the key 0.05

Has(d, key) == \E i \in 1..Len(d) : d[i].key = key

Get(d, key) == d[CHOOSE i \in 1..Len(d) : d[i].key = key].df

Keys(d) == [i \in 1..Len(d) |-> d[i].key]

\* setdefault instead of assignment: the first table of a key is kept
DictSetKeepFirst(d, key, df) ==
    IF Has(d, key) THEN d ELSE Append(d, [key |-> key, df |-> df])

\* d[key] = df: an existing key keeps its position and gets the new value
DictSet(d, key, df) ==
    IF Has(d, key)
    THEN [i \in 1..Len(d) |-> IF d[i].key = key THEN [key |-> key, df |-> df] ELSE d[i]]
    ELSE Append(d, [key |-> key, df |-> df])

RECURSIVE InsertItem(_, _)
InsertItem(it, sorted) ==
    IF sorted = <<>> THEN <<it>>
    ELSE IF FLt(it.key, Head(sorted).key) THEN <<it>> \o sorted
    ELSE <<Head(sorted)>> \o InsertItem(it, Tail(sorted))

RECURSIVE SortItems(_)
SortItems(d) ==
    IF d = <<>> THEN <<>>
    ELSE InsertItem(d[Len(d)], SortItems(SubSeq(d, 1, Len(d) - 1)))

\* iteration in insertion order, without sorted()
UnsortedItems(d) == d

\* sorted(data.items()): ascending by key (keys are unique, the tables are
\* never compared)
SortedItems(d) == SortItems(d)

Msg(text, args) == [text |-> text, args |-> args]

----------------------------------------------------------------------------
(* load_calibration_data *)

\* pd.read_csv(csv_file)
ReadCsv(stem) == files[stem]

RECURSIVE LoadLoop(_, _, _)
LoadLoop(sortedFiles, d, out) ==
    IF sortedFiles = <<>> THEN [none |-> FALSE, data |-> d, out |-> out]
    ELSE LET stem == Head(sortedFiles)
             b == DecodeB[stem]
         IN  IF b = <<>>
             THEN LoadLoop(Tail(sortedFiles), d,
                           Append(out, Msg("Advertencia: No se pudo extraer B de", <<stem>>)))
             ELSE LoadLoop(Tail(sortedFiles), DictSet(d, b[1], ReadCsv(stem)),
                           Append(out, Msg("Cargado:", <<stem, Len(ReadCsv(stem).rows)>>)))

\* csv_files is what glob returned, in its order
load_calibration_data(csv_files) ==
    IF csv_files = <<>>
    THEN [none |-> TRUE, data |-> <<>>,
          out |-> <<Msg("Error: No se encontraron archivos CSV", <<>>)>>]
    ELSE LoadLoop(SortPaths(csv_files), <<>>, <<>>)

----------------------------------------------------------------------------
(* plot_r_vs_n_comparison *)

MAX_ROBOTS == 20            \* the cap of R_min in df['R_min'] <= 20

\* df['R_min'] <= 20 and df['R_min'] > 20
Valid(df) == [i \in 1..Len(df.rows) |-> df.rows[i].R_min <= MAX_ROBOTS]
Failed(df) == [i \in 1..Len(df.rows) |-> df.rows[i].R_min > MAX_ROBOTS]

\* the content of r_vs_n_comparison.png
plot_r_vs_n_comparison(d) ==
    LET items == SortedItems(d)
        first_df == d[1].df                     \* list(data.values())[0]
        n_min == SeriesMin(Column(first_df, "N"))
        n_range == FSub(SeriesMax(Column(first_df, "N")), n_min)
    IN  [series |-> [idx \in 1..Len(items) |->
                       LET valid_df == Filter(items[idx].df, Valid(items[idx].df))
                       IN  [b |-> items[idx].key,
                            label |-> Fmt(items[idx].key, 3),
                            style |-> (idx - 1) % 4,
                            xs |-> Column(valid_df, "N"),
                            ys |-> Column(valid_df, "R_min")]],
         failed |-> [idx \in 1..Len(items) |->
                       LET failed_df == Filter(items[idx].df, Failed(items[idx].df))
                       IN  [xs |-> Column(failed_df, "N"),
                            ys |-> [i \in 1..Len(failed_df.rows) |-> MAX_ROBOTS]]],
         zone |-> IF d = <<>> THEN <<>>
                  ELSE <<n_min, FAdd(n_min, FDivInt(FMulInt(n_range, 3), 10))>>]

----------------------------------------------------------------------------
(* plot_cost_effectiveness *)

Efficiency(r) == FDiv(r.N, r.R_min)

\* the part after the guard: what it does to the ResultSet (df is data[0.0]
\* itself, so the new column lands in the ResultSet), the chart it saves,
\* what it prints and the exception it ends with
CostChart(d) ==
    LET df == SetColumn(Get(d, Zero), "efficiency",
                        [i \in 1..Len(Get(d, Zero).rows) |->
                            Efficiency(Get(d, Zero).rows[i])])
        d2 == DictSet(d, Zero, df)
        max_eff_idx == IdxMax(Column(df, "efficiency"))
    IN  IF df.rows = <<>>            \* df['R_min'].iloc[0]
        THEN [data |-> d2, png |-> <<>>, out |-> <<>>, raised |-> <<"IndexError">>]
        ELSE IF max_eff_idx = 0
        THEN [data |-> d2, png |-> <<>>, out |-> <<>>, raised |-> <<"ValueError">>]
        ELSE [data |-> d2, raised |-> <<>>,
              out |-> <<Msg("Guardado:", <<"cost_effectiveness.png">>)>>,
              png |-> << [xs |-> Column(df, "N"),
                          r_min |-> Column(df, "R_min"),
                          ideal_ratio |-> FDiv(df.rows[1].R_min, df.rows[1].N),
                          efficiency |-> Column(df, "efficiency"),
                          optimal |-> [N |-> df.rows[max_eff_idx].N,
                                       R_min |-> df.rows[max_eff_idx].R_min,
                                       efficiency |-> df.rows[max_eff_idx].efficiency]] >>]

\* data[0.0] without the membership test: a KeyError when the key is absent
plot_cost_effectiveness_unguarded(d) ==
    IF ~Has(d, Zero)
    THEN [data |-> d, png |-> <<>>, out |-> <<>>, raised |-> <<"KeyError">>]
    ELSE CostChart(d)

plot_cost_effectiveness(d) ==
    IF ~Has(d, Zero)
    THEN [data |-> d, png |-> <<>>, raised |-> <<>>,
          out |-> <<Msg("Advertencia: No hay datos con B=0.0", <<>>)>>]
    ELSE CostChart(d)

----------------------------------------------------------------------------
(* plot_redundancy_analysis *)

sample_n_values == <<10, 20, 30, 40, 50>>

\* the overhead computed with the wrong divisor
OverheadPctOfNew(r_with_b, r_baseline) ==
    FMulInt(FDiv(r_with_b - r_baseline, r_with_b), 100)

\* ((r_with_b - r_baseline) / r_baseline) * 100
OverheadPct(r_with_b, r_baseline) ==
    FMulInt(FDiv(r_with_b - r_baseline, r_baseline), 100)

\* the overhead and n_common lists of one table against the baseline
OverheadOf(df_b, baseline_data) ==
    LET matched == SelectSeq(df_b.rows,
                       LAMBDA row : Filter(baseline_data, NEquals(baseline_data, row.N)).rows # <<>>)
    IN  [n_common |-> [i \in 1..Len(matched) |-> matched[i].N],
         overhead |-> [i \in 1..Len(matched) |->
                          OverheadPct(matched[i].R_min,
                                      Filter(baseline_data,
                                             NEquals(baseline_data, matched[i].N)).rows[1].R_min)]]

\* the content of redundancy_analysis.png
plot_redundancy_analysis(d) ==
    LET items == SortedItems(d)
        b_values == Keys(items)
        r_values == [t \in 1..Len(sample_n_values) |->
                       [i \in 1..Len(items) |->
                           LET match == Filter(items[i].df,
                                               NEquals(items[i].df, sample_n_values[t]))
                           IN  IF match.rows # <<>> THEN Num(match.rows[1].R_min) ELSE NaN]]
        \* if not all(np.isnan(r_values))
        drawn == SelectSeq([t \in 1..Len(sample_n_values) |-> t],
                     LAMBDA t : d # <<>> /\ \E i \in 1..Len(items) : r_values[t][i].k # "nan")
        others == SelectSeq(items, LAMBDA it : it.key # Zero)
        computed == [i \in 1..Len(others) |->
                       IF Has(d, Zero) THEN OverheadOf(others[i].df, Get(d, Zero))
                       ELSE [n_common |-> <<>>, overhead |-> <<>>]]
        \* if overhead
        plotted == SelectSeq([i \in 1..Len(others) |-> i],
                       LAMBDA i : computed[i].overhead # <<>>)
    IN  [b_values |-> b_values,
         curves |-> [j \in 1..Len(drawn) |->
                       [n_target |-> sample_n_values[drawn[j]],
                        r_values |-> r_values[drawn[j]]]],
         overhead_panel |-> Has(d, Zero),
         overhead |-> [j \in 1..Len(plotted) |->
                         [b |-> others[plotted[j]].key,
                          label |-> Fmt(others[plotted[j]].key, 3),
                          n_common |-> computed[plotted[j]].n_common,
                          overhead |-> computed[plotted[j]].overhead]]]

----------------------------------------------------------------------------
(* generate_summary_report *)

n_compare == 30

\* the lines written for one table
SummaryBlock(b_value, df) ==
    LET df_valid == Filter(df, Valid(df))
        effs == [i \in 1..Len(df_valid.rows) |-> Efficiency(df_valid.rows[i])]
    IN  << Msg("--- Probabilidad de Falla B =", <<Fmt(b_value, 3)>>),
           Msg("Rango de mangos (N):", <<Fmt(SeriesMin(Column(df, "N")), 0),
                                         Fmt(SeriesMax(Column(df, "N")), 0)>>),
           Msg("Robots minimos:", <<Fmt(SeriesMin(Column(df, "R_min")), 0)>>),
           Msg("Robots maximos:", <<Fmt(SeriesMax(Column(df, "R_min")), 0)>>) >>
        \o (IF df_valid.rows = <<>> THEN <<>>
            ELSE << Msg("Eficiencia promedio:", <<Fmt(SeriesMean(effs), 2)>>),
                    Msg("Tasa exito promedio:",
                        <<Fmt(FMulInt(SeriesMean(Column(df_valid, "success_rate")), 100), 1)>>) >>)

RECURSIVE SummaryBlocks(_)
SummaryBlocks(items) ==
    IF items = <<>> THEN <<>>
    ELSE SummaryBlock(Head(items).key, Head(items).df) \o SummaryBlocks(Tail(items))

\* section 1: written only when the baseline has a valid row
OptimalSection(d) ==
    LET df_valid == Filter(Get(d, Zero), Valid(Get(d, Zero)))
        effs == [i \in 1..Len(df_valid.rows) |-> Efficiency(df_valid.rows[i])]
        optimal_idx == IdxMax(effs)
    IN  IF ~Has(d, Zero) \/ df_valid.rows = <<>> THEN [lines |-> <<>>, raised |-> <<>>]
        ELSE IF optimal_idx = 0 THEN [lines |-> <<>>, raised |-> <<"ValueError">>]
        ELSE [raised |-> <<>>,
              lines |-> << Msg("1. PUNTO OPTIMO DE OPERACION (sin fallas):", <<>>),
                           Msg("- Configuracion: N, R",
                               <<Fmt(Num(df_valid.rows[optimal_idx].N), 0),
                                 Fmt(Num(df_valid.rows[optimal_idx].R_min), 0)>>),
                           Msg("- Eficiencia:", <<Fmt(effs[optimal_idx], 2)>>),
                           Msg("- Esta configuracion maximiza la utilizacion de recursos", <<>>) >>]

\* section 2: the heading, and the figures when both tables have N = 30
RedundancySection(d) ==
    LET r_0 == Column(Filter(Get(d, Zero), NEquals(Get(d, Zero), n_compare)), "R_min")
        r_005 == Column(Filter(Get(d, FiveHundredths),
                               NEquals(Get(d, FiveHundredths), n_compare)), "R_min")
    IN  <<Msg("2. IMPACTO DE REDUNDANCIA:", <<>>)>>
        \o (IF Has(d, Zero) /\ Has(d, FiveHundredths) /\ Len(r_0) > 0 /\ Len(r_005) > 0
            THEN << Msg("- Con B=0.05, se requiere % mas robots",
                        <<Fmt(FMulInt(FDiv(r_005[1] - r_0[1], r_0[1]), 100), 1)>>),
                    Msg("- Ejemplo: N=30 mangos requiere robots (B=0) vs robots (B=0.05)",
                        <<Fmt(Num(r_0[1]), 0), Fmt(Num(r_005[1]), 0)>>) >>
            ELSE <<>>)

\* the lines of analysis_report.txt (those written before an exception, if
\* one is raised) and the exception
generate_summary_report(d) ==
    LET head == << Msg("RULE", <<>>),
                   Msg("MangoNeado - Reporte de Analisis de Calibracion", <<>>),
                   Msg("RULE", <<>>) >>
                \o SummaryBlocks(SortedItems(d))
                \o << Msg("RULE", <<>>), Msg("RECOMENDACIONES", <<>>), Msg("RULE", <<>>) >>
        opt == OptimalSection(d)
    IN  IF opt.raised # <<>> THEN [lines |-> head, raised |-> opt.raised]
        ELSE [raised |-> <<>>,
              lines |-> head \o opt.lines \o RedundancySection(d)
                        \o << Msg("3. ESCALABILIDAD:", <<>>),
                              Msg("- El sistema escala aproximadamente linealmente con N", <<>>),
                              Msg("- Para cargas de 1.2xN, planificar incremento proporcional de robots", <<>>),
                              Msg("RULE", <<>>) >>]

----------------------------------------------------------------------------
(* main *)

Init ==
    /\ hasArg \in BOOLEAN
    /\ dirExists \in BOOLEAN
    /\ files \in Directories
    /\ ~hasArg => ~dirExists            \* no argument: no directory is named
    /\ ~dirExists => files = <<>>       \* a missing directory holds no file
    /\ pc = "args"
    /\ data = <<>>
    /\ loaded = <<>>
    /\ steps = <<>>
    /\ stdout = <<>>
    /\ comparisonPng = <<>>
    /\ costPng = <<>>
    /\ redundancyPng = <<>>
    /\ reportTxt = <<>>
    /\ raised = <<>>
    /\ exitCode = <<>>

inputs == <<hasArg, dirExists, files>>
outputs == <<comparisonPng, costPng, redundancyPng, reportTxt>>

\* if len(sys.argv) < 2: usage, sys.exit(1)
CheckArgs ==
    /\ pc = "args"
    /\ steps' = Append(steps, "args")
    /\ IF ~hasArg
       THEN /\ stdout' = stdout \o <<Msg("Uso: python3 plot_results.py <results_dir>", <<>>)>>
            /\ pc' = "exit"
            /\ exitCode' = <<1>>
       ELSE /\ pc' = "dir"
            /\ UNCHANGED <<stdout, exitCode>>
    /\ UNCHANGED <<inputs, outputs, data, loaded, raised>>

\* if not os.path.exists(results_dir): error, sys.exit(1)
CheckDir ==
    /\ pc = "dir"
    /\ steps' = Append(steps, "dir")
    /\ IF ~dirExists
       THEN /\ stdout' = stdout \o <<Msg("Error: Directorio no existe", <<>>)>>
            /\ pc' = "exit"
            /\ exitCode' = <<1>>
       ELSE /\ pc' = "load"
            /\ UNCHANGED <<stdout, exitCode>>
    /\ UNCHANGED <<inputs, outputs, data, loaded, raised>>

\* data = load_calibration_data(results_dir); if not data: error, sys.exit(1)
\* (None and the empty dict are both kept as the empty ResultSet)
Load ==
    /\ pc = "load"
    /\ steps' = Append(steps, "load")
    /\ \E order \in GlobOrders(DOMAIN files) :
          \E res \in {load_calibration_data(order)} :
              /\ data' = res.data
              /\ loaded' = res.data
              /\ IF res.none \/ res.data = <<>>
                 THEN /\ stdout' = stdout \o res.out
                                   \o <<Msg("Error: No se pudieron cargar datos", <<>>)>>
                      /\ pc' = "exit"
                      /\ exitCode' = <<1>>
                 ELSE /\ stdout' = stdout \o res.out
                                   \o <<Msg("Cargados conjuntos de datos", <<Len(res.data)>>)>>
                      /\ pc' = "comparison"
                      /\ UNCHANGED exitCode
    /\ UNCHANGED <<inputs, outputs, raised>>

PlotComparison ==
    /\ pc = "comparison"
    /\ steps' = Append(steps, "comparison")
    /\ comparisonPng' = <<plot_r_vs_n_comparison(data)>>
    /\ stdout' = Append(stdout, Msg("Guardado:", <<"r_vs_n_comparison.png">>))
    /\ pc' = "cost"
    /\ UNCHANGED <<inputs, data, loaded, costPng, redundancyPng, reportTxt, raised, exitCode>>

\* an uncaught exception ends the process with a traceback and exit code 1
PlotCost ==
    /\ pc = "cost"
    /\ steps' = Append(steps, "cost")
    /\ \E res \in {plot_cost_effectiveness(data)} :
           /\ data' = res.data
           /\ costPng' = res.png
           /\ stdout' = stdout \o res.out
           /\ raised' = res.raised
           /\ IF res.raised # <<>>
              THEN pc' = "exit" /\ exitCode' = <<1>>
              ELSE pc' = "redundancy" /\ UNCHANGED exitCode
    /\ UNCHANGED <<inputs, loaded, comparisonPng, redundancyPng, reportTxt>>

PlotRedundancy ==
    /\ pc = "redundancy"
    /\ steps' = Append(steps, "redundancy")
    /\ redundancyPng' = <<plot_redundancy_analysis(data)>>
    /\ stdout' = Append(stdout, Msg("Guardado:", <<"redundancy_analysis.png">>))
    /\ pc' = "report"
    /\ UNCHANGED <<inputs, data, loaded, comparisonPng, costPng, reportTxt, raised, exitCode>>

Report ==
    /\ pc = "report"
    /\ steps' = Append(steps, "report")
    /\ \E res \in {generate_summary_report(data)} :
           /\ reportTxt' = <<res.lines>>
           /\ raised' = res.raised
           /\ IF res.raised # <<>>
              THEN pc' = "exit" /\ exitCode' = <<1>> /\ UNCHANGED stdout
              ELSE /\ pc' = "finish"
                   /\ stdout' = Append(stdout, Msg("Guardado:", <<"analysis_report.txt">>))
                   /\ UNCHANGED exitCode
    /\ UNCHANGED <<inputs, data, loaded, comparisonPng, costPng, redundancyPng>>

\* main returns: the interpreter exits with code 0
Finish ==
    /\ pc = "finish"
    /\ steps' = Append(steps, "finish")
    /\ stdout' = Append(stdout, Msg("Analisis completado exitosamente", <<>>))
    /\ pc' = "exit"
    /\ exitCode' = <<0>>
    /\ UNCHANGED <<inputs, outputs, data, loaded, raised>>

Next ==
    \/ CheckArgs
    \/ CheckDir
    \/ Load
    \/ PlotComparison
    \/ PlotCost
    \/ PlotRedundancy
    \/ Report
    \/ Finish

Spec == Init /\ [][Next]_vars

----------------------------------------------------------------------------
(* Properties *)

Exited == pc = "exit"
AfterLoad == \E i \in 1..Len(steps) : steps[i] = "load"
\* the step main has just taken
Just(step) == steps # <<>> /\ steps[Len(steps)] = step

Decodable == {stem \in DOMAIN files : DecodeB[stem] # <<>>}
Undecodable == DOMAIN files \ Decodable
Printed(text) == {i \in 1..Len(stdout) : stdout[i].text = text}

ReportLines == IF reportTxt = <<>> THEN <<>> ELSE reportTxt[1]
LinesWith(text) == SelectSeq(ReportLines, LAMBDA l : l.text = text)

NoOutputFile ==
    comparisonPng = <<>> /\ costPng = <<>> /\ redundancyPng = <<>> /\ reportTxt = <<>>

\* C1: a run ends with exit code 1 and no output file when the argument or
\* the directory is missing or no file decodes; every other run goes through
\* load, the three charts and the report in that order and ends with code 0.
C1_ExitCodes ==
    Exited =>
        IF ~hasArg \/ ~dirExists \/ Decodable = {}
        THEN exitCode = <<1>> /\ NoOutputFile
        ELSE /\ exitCode = <<0>>
             /\ steps = <<"args", "dir", "load", "comparison", "cost",
                          "redundancy", "report", "finish">>

LastFileOf(key) ==
    CHOOSE stem \in Decodable :
        /\ DecodeB[stem][1] = key
        /\ \A other \in Decodable :
              DecodeB[other][1] = key /\ other # stem
                  => PathLt[other, stem]

C3_NoBaseline ==
    Exited /\ loaded # <<>> /\ ~Has(loaded, Zero) =>
        /\ exitCode = <<0>>
        /\ raised = <<>>
        /\ costPng = <<>>
        /\ Printed("Advertencia: No hay datos con B=0.0") # {}
        /\ comparisonPng # <<>>
        /\ redundancyPng # <<>>
        /\ ~redundancyPng[1].overhead_panel
        /\ redundancyPng[1].overhead = <<>>
        /\ reportTxt # <<>>
        /\ ReportLines[Len(ReportLines)].text = "RULE"

C3_Witness ==
    Exited /\ loaded # <<>> /\ ~Has(loaded, Zero) /\ Len(loaded[1].df.rows) > 1

\* C4: no row above the cap is in a main comparison series or is the optimal
\* point, of the cost-effectiveness chart or of the report; a baseline with
\* no row within the cap has no optimal point.
C4_CapExcluded ==
    /\ comparisonPng # <<>> =>
          \A s \in 1..Len(comparisonPng[1].series) :
             \A i \in 1..Len(comparisonPng[1].series[s].ys) :
                comparisonPng[1].series[s].ys[i] <= MAX_ROBOTS
    /\ costPng # <<>> => costPng[1].optimal.R_min <= MAX_ROBOTS
    /\ \A i \in 1..Len(LinesWith("- Configuracion: N, R")) :
          LinesWith("- Configuracion: N, R")[i].args[2].v <= MAX_ROBOTS
    /\ (Has(loaded, Zero) /\ \A i \in 1..Len(Get(loaded, Zero).rows) :
                                Get(loaded, Zero).rows[i].R_min > MAX_ROBOTS)
          => costPng = <<>> /\ LinesWith("- Configuracion: N, R") = <<>>

\* C5: the report is written without an exception and has the heading of
\* each of the three recommendation sections, whatever data is missing.
C5_HeadingsKept ==
    reportTxt # <<>> =>
        /\ raised = <<>>
        /\ Len(LinesWith("1. PUNTO OPTIMO DE OPERACION (sin fallas):")) = 1
        /\ Len(LinesWith("2. IMPACTO DE REDUNDANCIA:")) = 1
        /\ Len(LinesWith("3. ESCALABILIDAD:")) = 1

\* C6: with a table of zero rows in the ResultSet nothing raises: the run
\* reaches the report step and ends with code 0.
C6_EmptyTableNoRaise ==
    Exited /\ (\E i \in 1..Len(loaded) : loaded[i].df.rows = <<>>) =>
        /\ raised = <<>>
        /\ reportTxt # <<>>
        /\ exitCode = <<0>>

\* the rows of a table whose N occurs in the baseline
RowsInBaseline(df, base) ==
    SelectSeq(df.rows, LAMBDA row : \E j \in 1..Len(base.rows) : base.rows[j].N = row.N)

BaselineR(base, n) == base.rows[CHOOSE j \in 1..Len(base.rows) : base.rows[j].N = n].R_min

\* the series plotted for a key; none when the table shares no N with the
\* baseline
OverheadSeries(key) ==
    SelectSeq(redundancyPng[1].overhead, LAMBDA s : s.b = key)

\* C7: the overhead series of a table with a non-zero key has one entry per
\* row whose N is in the baseline, none for the other rows, and the entry is
\* (r_with_b - r_baseline) / r_baseline * 100: 20 for 6 against 5, 0 for
\* equal values.
C7_Overhead ==
    Just("redundancy") /\ Has(loaded, Zero) =>
        \A i \in 1..Len(loaded) :
            loaded[i].key # Zero =>
                LET base == Get(loaded, Zero)
                    rows == RowsInBaseline(loaded[i].df, base)
                    ser == OverheadSeries(loaded[i].key)
                IN  IF rows = <<>> THEN ser = <<>>
                    ELSE /\ Len(ser) = 1
                         /\ ser[1].n_common = [j \in 1..Len(rows) |-> rows[j].N]
                         /\ Len(ser[1].overhead) = Len(rows)
                         /\ \A j \in 1..Len(rows) :
                               LET r0 == BaselineR(base, rows[j].N)
                                   rb == rows[j].R_min
                                   e == ser[1].overhead[j]
                               IN  /\ r0 # 0 => e.k = "num" /\ e.n * r0 = (rb - r0) * 100 * e.d
                                   /\ r0 = 5 /\ rb = 6 => e = Num(20)
                                   /\ r0 = rb /\ r0 # 0 => e = Num(0)

\* a series of one entry, the 20 percent of 6 against 5, for a table with a
\* second row whose N the baseline lacks
C7_Witness ==
    /\ Just("redundancy")
    /\ \E i \in 1..Len(redundancyPng[1].overhead) :
          /\ redundancyPng[1].overhead[i].overhead = <<Num(20)>>
          /\ Len(Get(loaded, redundancyPng[1].overhead[i].b).rows) = 2

BlockKeys == [i \in 1..Len(LinesWith("--- Probabilidad de Falla B =")) |->
                 LinesWith("--- Probabilidad de Falla B =")[i].args[1]]

\* C8: the report has one summary block per key, in strictly ascending
\* order of key, whatever the order the files were found and inserted in.
C8_BlocksAscending ==
    Just("report") =>
        /\ Len(BlockKeys) = Len(loaded)
        /\ {BlockKeys[i] : i \in 1..Len(BlockKeys)} = {Fmt(loaded[i].key, 3) : i \in 1..Len(loaded)}
        /\ \A i \in 1..Len(BlockKeys) - 1 : BlockKeys[i].v < BlockKeys[i + 1].v

\* two tables inserted in descending order of key
C8_Witness ==
    Just("report") /\ Len(loaded) = 2 /\ FLt(loaded[2].key, loaded[1].key)

\* C9: a row with R_min <= 0 takes no part in an efficiency computation: it
\* has no point on the efficiency curve, it is not the optimal point, and
\* the mean efficiency of the report is taken over rows with R_min > 0.
C9_NonPositiveExcluded ==
    /\ costPng # <<>> =>
          /\ costPng[1].optimal.R_min > 0
          /\ Len(costPng[1].efficiency)
                = Len(SelectSeq(costPng[1].r_min, LAMBDA r : r > 0))
    /\ \A i \in 1..Len(LinesWith("- Configuracion: N, R")) :
          LinesWith("- Configuracion: N, R")[i].args[2].v > 0
    /\ \A i \in 1..Len(LinesWith("Eficiencia promedio:")) :
          LinesWith("Eficiencia promedio:")[i].args[1].k = "num"

\* C10: after the chart and report steps, also in a run that raises nothing,
\* every table of the ResultSet has the keys, columns and rows it had right
\* after loading.
C10_ResultSetUnchanged ==
    AfterLoad /\ raised = <<>> => data = loaded

====
